---- MODULE Spec2Model ----
(***************************************************************************)
(* A model of content_summarizer.py: the command-line driver (main), the   *)
(* batch loop (process_urls_from_file), the single-file path               *)
(* (process_text_file) and the stages they call.                           *)
(*                                                                         *)
(* Strings are sequences of symbols.  A symbol is a one-character string,  *)
(* or a literal of the program kept whole (such as "summary_" or ".md").    *)
(* The file system is a map from paths to file contents plus a set of      *)
(* directories.  The network, the completion API and the failures of the   *)
(* file system are nondeterministic choices made when the program asks.    *)
(***************************************************************************)
EXTENDS Integers, Sequences, FiniteSets, TLC

VARIABLES
    args,          \* how the program is entered: entry point, mode, input, output
    files,         \* file system: path -> content, for the files that exist
    dirs,          \* file system: the directories that exist
    pc,            \* position of the running program
    urls,          \* process_urls_from_file: the list read from the list file
    i,             \* process_urls_from_file: the enumeration index
    article_text,  \* the text the content source returned
    summary,       \* the text the summarizer returned
    output_file,   \* process_text_file: the path the summary goes to
    raised,        \* an exception left the function that was entered
    run,           \* number of the current run of the program
    log,           \* the external operations of the current run, in order
    resp,          \* the external responses of the current run, per item
    prev           \* the log and responses of the run before, and the file
                   \* system it left, which is the one this run started with

vars == << args, files, dirs, pc, urls, i, article_text, summary, output_file,
           raised, run, log, resp, prev >>

-----------------------------------------------------------------------------
(* Bounds of the model *)

MaxContentLen == 4     \* symbols in the list file
MaxNameLen == 3        \* symbols in the path of the text file
MaxRuns == 2           \* runs of the program over one file system
MaxTemplateLen == 5    \* symbols in a prompt template
MaxTextLen == 3        \* symbols in an extracted text

-----------------------------------------------------------------------------
(* Strings *)

\* Python's None, where a string is expected
NoValue == << "None" >>
\* No response asked for yet
Unset == << "unset" >>

Whitespace == {" ", "\n"}

RECURSIVE lstrip(_)
lstrip(s) ==
    IF s # <<>> /\ Head(s) \in Whitespace THEN lstrip(Tail(s)) ELSE s

RECURSIVE rstrip(_)
rstrip(s) ==
    IF s # <<>> /\ s[Len(s)] \in Whitespace
    THEN rstrip(SubSeq(s, 1, Len(s) - 1))
    ELSE s

\* str.strip(): leading and trailing whitespace removed
strip(s) == rstrip(lstrip(s))

\* str.startswith(p)
startswith(s, p) == Len(s) >= Len(p) /\ SubSeq(s, 1, Len(p)) = p

\* Index of the first "\n" of s, or Len(s) if it has none
LineEnd(s) ==
    IF \E n \in 1..Len(s) : s[n] = "\n"
    THEN CHOOSE n \in 1..Len(s) : s[n] = "\n" /\ \A m \in 1..(n - 1) : s[m] # "\n"
    ELSE Len(s)

\* Iterating a text file: its lines in order, each with its line end
RECURSIVE readlines(_)
readlines(c) ==
    IF c = <<>> THEN <<>>
    ELSE << SubSeq(c, 1, LineEnd(c)) >> \o readlines(SubSeq(c, LineEnd(c) + 1, Len(c)))

\* str.replace(old, new): every occurrence, leftmost first, not overlapping
RECURSIVE replace(_, _, _)
replace(s, old, new) ==
    IF Len(s) < Len(old) THEN s
    ELSE IF startswith(s, old)
         THEN new \o replace(SubSeq(s, Len(old) + 1, Len(s)), old, new)
         ELSE << Head(s) >> \o replace(Tail(s), old, new)

\* Index of the last occurrence of symbol c in s, 0 if none (str.rfind + 1)
rfind(s, c) ==
    IF \E n \in 1..Len(s) : s[n] = c
    THEN CHOOSE n \in 1..Len(s) : s[n] = c /\ \A m \in (n + 1)..Len(s) : s[m] # c
    ELSE 0

\* A variant of splitext_root that drops no extension
splitext_root_KeepsExtension(p) == p

\* os.path.splitext(p)[0]: the extension starts at the last dot of the last
\* path component, unless only dots precede it in that component
splitext_root(p) ==
    LET sep == rfind(p, "/")
        dot == rfind(p, ".")
    IN  IF dot > sep /\ \E n \in (sep + 1)..(dot - 1) : p[n] # "."
        THEN SubSeq(p, 1, dot - 1)
        ELSE p

DigitSymbol(d) == << "0", "1", "2", "3", "4", "5", "6", "7", "8", "9" >>[d + 1]

RECURSIVE Decimal(_)
Decimal(n) ==
    IF n < 10 THEN << DigitSymbol(n) >>
    ELSE Decimal(n \div 10) \o << DigitSymbol(n % 10) >>

RECURSIVE ZeroPad(_, _)
ZeroPad(s, width) == IF Len(s) >= width THEN s ELSE ZeroPad(<< "0" >> \o s, width)

\* f"{n:03d}"
Format03d(n) == ZeroPad(Decimal(n), 3)

\* os.path.join(d, name), for a relative name
join(d, name) == d \o << "/" >> \o name

-----------------------------------------------------------------------------
(* The program's names and literals *)

PromptPath == << "prompt.txt" >>
DefaultUrlsFile == << "urls.txt" >>
DefaultOutputDir == << "summaries" >>
DefaultTextFile == << "input.txt" >>

\* The placeholder "{{ insert blog post or raw dev thread here }}": its two
\* opening and two closing braces, the text between them left out.  Like the
\* program's token, no proper prefix of it is a suffix of it.
Token == << "{", "{", "}", "}" >>

\* A variant of SampleList whose example URL is not commented out
SampleList_LiveExample ==
    << "#", " ", "Add URLs here, one per line", "\n",
       "#", " ", "Example:", "\n",
       "https://example.com/blog-post", "\n" >>

\* What main writes into a list file it creates
SampleList ==
    << "#", " ", "Add URLs here, one per line", "\n",
       "#", " ", "Example:", "\n",
       "#", " ", "https://example.com/blog-post", "\n" >>

-----------------------------------------------------------------------------
(* The inputs the model draws from *)

\* All sequences over S with lengths lo..hi
SeqsOf(S, lo, hi) == UNION { [1..n -> S] : n \in lo..hi }

ListSymbols == {"u", " ", "#", "\n"}
ListContents == SeqsOf(ListSymbols, 0, MaxContentLen)

NameSymbols == {"a", ".", "/"}
\* Paths that can name a regular file: the last component is not empty, "." or ".."
TextFileNames ==
    { n \in SeqsOf(NameSymbols, 1, MaxNameLen) :
        LET base == SubSeq(n, rfind(n, "/") + 1, Len(n))
        IN  base \notin { <<>>, << "." >>, << ".", "." >> } }

TextContents == { <<>>, << " ", "\n" >>, << "x" >>, << " ", "x", "\n" >> }

PromptTemplate == << "p" >> \o Token \o << "q" >>

\* Templates and extracted texts for the prompt builder on its own: the
\* symbols of the token and one symbol that is not in it
PromptSymbols == {"{", "}", "x"}
Templates == SeqsOf(PromptSymbols, 0, MaxTemplateLen)
\* The callers pass on only non-empty texts
Texts == SeqsOf(PromptSymbols, 1, MaxTextLen)

\* What the content source can return for a URL: nothing (a failed fetch,
\* a page without paragraphs) or the stripped paragraph text
FetchResults == { <<>>, << "x" >> }

\* What the completion call can yield: nothing (an error, an empty answer)
\* or the answer
CompletionResults == { <<>>, << "s" >> }

\* How writing a file can end: written; open() raises and the file is left
\* as it was; open() truncates the file and a later write or the close raises
WriteOutcomes == { "ok", "openfail", "closefail" }

ItemIdx == 1..(MaxContentLen + 1)

StalePath == join(DefaultOutputDir, << "summary_", "0", "0", "1", ".md" >>)

-----------------------------------------------------------------------------
(* File system *)

\* os.path.exists(p)
exists(p) == p \in DOMAIN files \/ p \in dirs

\* A variant of write_file that opens the file for appending
write_file_Appends(fs, p, c) ==
    [ q \in DOMAIN fs \cup {p} |->
        IF q = p THEN (IF p \in DOMAIN fs THEN fs[p] \o c ELSE c) ELSE fs[q] ]

\* with open(p, "w") as f: f.write(c) -- the file is created or replaced
write_file(fs, p, c) == [ q \in DOMAIN fs \cup {p} |-> IF q = p THEN c ELSE fs[q] ]

\* The state of the files after a write that ended with outcome o
after_write(fs, p, c, o) ==
    CASE o = "ok" -> write_file(fs, p, c)
      [] o = "closefail" -> write_file(fs, p, <<>>)
      [] OTHER -> fs

NoFiles == [ q \in {} |-> <<>> ]

Event(op, k, a, r) == [ op |-> op, i |-> k, arg |-> a, result |-> r ]

NoResp ==
    [ fetch |-> [ k \in ItemIdx |-> Unset ],
      compl |-> [ k \in ItemIdx |-> Unset ],
      wr    |-> [ k \in ItemIdx |-> "unset" ] ]

-----------------------------------------------------------------------------
(* The decisions of the program *)

\* main: args.input or "urls.txt", args.output or "summaries"; the library
\* entry takes both as given
urls_file == IF args.input \in { NoValue, <<>> } THEN DefaultUrlsFile ELSE args.input
output_dir == IF args.output \in { NoValue, <<>> } THEN DefaultOutputDir ELSE args.output

\* main: args.input or "input.txt"
text_file == IF args.input \in { NoValue, <<>> } THEN DefaultTextFile ELSE args.input

\* The condition of the list comprehension of process_urls_from_file
IsListed(line) == strip(line) # <<>> /\ ~startswith(line, << "#" >>)

\* urls = [line.strip() for line in f if line.strip() and not line.startswith("#")]
RECURSIVE listed_urls(_)
listed_urls(lines) ==
    IF lines = <<>> THEN <<>>
    ELSE IF IsListed(Head(lines))
         THEN << strip(Head(lines)) >> \o listed_urls(Tail(lines))
         ELSE listed_urls(Tail(lines))

\* "if not article_text"
NoContent(text) == text = <<>>

\* A variant of NoSummary that never skips
NoSummary_NeverSkips(s) == FALSE

\* "if not summary"
NoSummary(s) == s = <<>>

\* A variant of build_prompt that drops the result of replace
build_prompt_KeepsTemplate(template, text) == template

\* full_prompt = prompt_template.replace(<token>, article_text)
build_prompt(template, text) == replace(template, Token, text)

\* filename = f"summary_{i:03d}.md"
summary_filename(k) == << "summary_" >> \o Format03d(k) \o << ".md" >>

\* What process_urls_from_file writes for one item
batch_document(url, s) == << "# Summary for:\n" >> \o url \o << "\n\n" >> \o s \o << "\n\n<br>\n" >>

\* What process_text_file writes
text_document(name, s) == << "# Summary for: " >> \o name \o << "\n\n" >> \o s \o << "\n" >>

\* process_text_file: the output path, derived from the input unless given
derive_output_file(name, given) ==
    IF given = NoValue THEN splitext_root(name) \o << "_summary.md" >> ELSE given

\* A variant of PromptMissing that does not look
PromptMissing_NotChecked == FALSE

\* main: not os.path.exists("prompt.txt")
PromptMissing == ~exists(PromptPath)

\* The position at which a run starts
StartPc == IF args.entry = "main" THEN "main" ELSE args.entry

-----------------------------------------------------------------------------
(* Initial states: the command line and the file system the program finds *)

FileIf(present, path, content) == IF present THEN path :> content ELSE NoFiles

WebArgs ==
    { [ entry |-> "main", mode |-> "web", input |-> NoValue, output |-> NoValue ],
      [ entry |-> "process_urls_from_file", mode |-> "web",
        input |-> DefaultUrlsFile, output |-> DefaultOutputDir ] }

TextArgs ==
    { [ entry |-> e, mode |-> "text", input |-> n, output |-> o ] :
        e \in { "main", "process_text_file" },
        n \in TextFileNames,
        o \in { NoValue, << "o" >> } }
    \cup { [ entry |-> "main", mode |-> "text", input |-> NoValue, output |-> NoValue ] }

InitRun ==
    /\ pc = StartPc
    /\ urls = <<>>
    /\ i = 0
    /\ article_text = <<>>
    /\ summary = <<>>
    /\ output_file = NoValue
    /\ raised = FALSE
    /\ log = <<>>
    /\ resp = NoResp

InitWeb ==
    /\ args \in WebArgs
    /\ \E hasPrompt \in BOOLEAN, list \in { NoValue } \cup ListContents, stale \in BOOLEAN :
         /\ files = FileIf(hasPrompt, PromptPath, PromptTemplate)
                       @@ FileIf(list # NoValue, DefaultUrlsFile, list)
                       @@ FileIf(stale, StalePath, << "old" >>)
         /\ dirs = IF stale THEN { DefaultOutputDir } ELSE {}

InitText ==
    /\ args \in TextArgs
    /\ \E hasPrompt \in BOOLEAN, content \in { NoValue } \cup TextContents :
         files = FileIf(hasPrompt, PromptPath, PromptTemplate)
                    @@ FileIf(content # NoValue, text_file, content)
    /\ dirs = {}

Init ==
    /\ InitWeb \/ InitText
    /\ run = 1
    /\ prev = [ log |-> <<>>, resp |-> NoResp, files |-> files, dirs |-> dirs ]
    /\ InitRun

-----------------------------------------------------------------------------
(* summarize_with_prompt(text), called for item k and returning s *)

summarize_with_prompt(text, k, s) ==
    IF PromptPath \notin DOMAIN files
    THEN \* open("prompt.txt") raises; the except clause returns ""
         /\ s = <<>>
         /\ log' = Append(log, Event("load_template", k, PromptPath, "fail"))
         /\ resp' = resp
    ELSE /\ s \in CompletionResults
         /\ log' = Append(log, Event("complete", k, build_prompt(files[PromptPath], text), s))
         /\ resp' = [ resp EXCEPT !.compl[k] = s ]

-----------------------------------------------------------------------------
(* main *)

\* prompt.txt is missing: a diagnostic, and return
MainMissingPrompt ==
    /\ pc = "main"
    /\ PromptMissing
    /\ pc' = "done"
    /\ UNCHANGED << args, files, dirs, urls, i, article_text, summary, output_file,
                    raised, run, log, resp, prev >>

\* web mode, the list file is missing: write a sample list file, and return
MainCreateSample ==
    /\ pc = "main"
    /\ ~PromptMissing
    /\ args.mode = "web"
    /\ ~exists(urls_file)
    /\ \E o \in WriteOutcomes :
         /\ files' = after_write(files, urls_file, SampleList, o)
         /\ log' = Append(log, Event("create_list", 0, urls_file, o))
         /\ raised' = (o # "ok")
    /\ pc' = "done"
    /\ UNCHANGED << args, dirs, urls, i, article_text, summary, output_file, run,
                    resp, prev >>

\* web mode: process_urls_from_file(urls_file, output_dir)
MainWeb ==
    /\ pc = "main"
    /\ ~PromptMissing
    /\ args.mode = "web"
    /\ exists(urls_file)
    /\ pc' = "process_urls_from_file"
    /\ UNCHANGED << args, files, dirs, urls, i, article_text, summary, output_file,
                    raised, run, log, resp, prev >>

\* text mode, the input file is missing: a diagnostic, and return
MainMissingInput ==
    /\ pc = "main"
    /\ ~PromptMissing
    /\ args.mode = "text"
    /\ ~exists(text_file)
    /\ pc' = "done"
    /\ UNCHANGED << args, files, dirs, urls, i, article_text, summary, output_file,
                    raised, run, log, resp, prev >>

\* text mode: process_text_file(text_file, args.output)
MainText ==
    /\ pc = "main"
    /\ ~PromptMissing
    /\ args.mode = "text"
    /\ exists(text_file)
    /\ pc' = "process_text_file"
    /\ UNCHANGED << args, files, dirs, urls, i, article_text, summary, output_file,
                    raised, run, log, resp, prev >>

-----------------------------------------------------------------------------
(* process_urls_from_file(urls_file, output_dir) *)

\* if not os.path.exists(output_dir): os.makedirs(output_dir)
\* This stands before the try block: a failure of makedirs leaves the function.
MakeOutputDir ==
    /\ pc = "process_urls_from_file"
    /\ IF exists(output_dir)
       THEN /\ pc' = "read_urls"
            /\ log' = Append(log, Event("call", 0, << "process_urls_from_file" >>, "entered"))
            /\ UNCHANGED << dirs, raised >>
       ELSE \E o \in { "ok", "fail" } :
              /\ log' = Append(Append(log, Event("call", 0, << "process_urls_from_file" >>, "entered")),
                               Event("makedirs", 0, output_dir, o))
              /\ dirs' = IF o = "ok" THEN dirs \cup { output_dir } ELSE dirs
              /\ raised' = (o # "ok")
              /\ pc' = IF o = "ok" THEN "read_urls" ELSE "done"
    /\ UNCHANGED << args, files, urls, i, article_text, summary, output_file, run,
                    resp, prev >>

\* with open(urls_file) as f: urls = [...]; a missing list file raises
\* FileNotFoundError, which the function catches and reports
ReadUrls ==
    /\ pc = "read_urls"
    /\ IF urls_file \in DOMAIN files
       THEN /\ urls' = listed_urls(readlines(files[urls_file]))
            /\ i' = 1
            /\ pc' = "fetch"
       ELSE /\ pc' = "done"
            /\ UNCHANGED << urls, i >>
    /\ UNCHANGED << args, files, dirs, article_text, summary, output_file, raised,
                    run, log, resp, prev >>

\* The loop head and article_text = extract_article_text(url); an empty text
\* skips the item
Fetch ==
    /\ pc = "fetch"
    /\ i <= Len(urls)
    /\ \E r \in FetchResults :
         /\ article_text' = r
         /\ log' = Append(log, Event("fetch", i, urls[i], r))
         /\ resp' = [ resp EXCEPT !.fetch[i] = r ]
         /\ IF NoContent(r)
            THEN i' = i + 1 /\ pc' = "fetch"
            ELSE i' = i /\ pc' = "summarize"
    /\ UNCHANGED << args, files, dirs, urls, summary, output_file, raised, run, prev >>

\* The list is exhausted: the function returns
LoopEnd ==
    /\ pc = "fetch"
    /\ i > Len(urls)
    /\ pc' = "done"
    /\ UNCHANGED << args, files, dirs, urls, i, article_text, summary, output_file,
                    raised, run, log, resp, prev >>

\* summary = summarize_with_prompt(article_text); an empty summary skips the item
Summarize ==
    /\ pc = "summarize"
    /\ \E s \in CompletionResults :
         /\ summarize_with_prompt(article_text, i, s)
         /\ summary' = s
         /\ IF NoSummary(s)
            THEN i' = i + 1 /\ pc' = "fetch"
            ELSE i' = i /\ pc' = "save"
    /\ UNCHANGED << args, files, dirs, urls, article_text, output_file, raised, run, prev >>

\* with open(filepath, "w") as f: ...  An exception here is caught by the
\* except clause around the whole loop: the function reports it and returns.
Save ==
    /\ pc = "save"
    /\ LET filepath == join(output_dir, summary_filename(i))
       IN  \E o \in WriteOutcomes :
             /\ files' = after_write(files, filepath, batch_document(urls[i], summary), o)
             /\ log' = Append(log, Event("write", i, filepath, o))
             /\ resp' = [ resp EXCEPT !.wr[i] = o ]
             /\ IF o = "ok"
                THEN i' = i + 1 /\ pc' = "fetch"
                ELSE i' = i /\ pc' = "done"
    /\ UNCHANGED << args, dirs, urls, article_text, summary, output_file, raised, run, prev >>

-----------------------------------------------------------------------------
(* process_text_file(text_file, output_file) *)

\* article_text = read_text_file(text_file): the stripped content, or "" when
\* the file cannot be read; an empty text ends the function
ReadText ==
    /\ pc = "process_text_file"
    /\ \E readable \in BOOLEAN :
         LET text == IF readable /\ text_file \in DOMAIN files
                     THEN strip(files[text_file])
                     ELSE <<>>
         IN  /\ article_text' = text
             /\ log' = Append(Append(log, Event("call", 0, << "process_text_file" >>, "entered")),
                              Event("read", 1, text_file, text))
             /\ resp' = [ resp EXCEPT !.fetch[1] = text ]
             /\ pc' = IF NoContent(text) THEN "done" ELSE "text_summarize"
    /\ UNCHANGED << args, files, dirs, urls, i, summary, output_file, raised, run, prev >>

\* summary = summarize_with_prompt(article_text); an empty summary ends the function
TextSummarize ==
    /\ pc = "text_summarize"
    /\ \E s \in CompletionResults :
         /\ summarize_with_prompt(article_text, 1, s)
         /\ summary' = s
         /\ pc' = IF NoSummary(s) THEN "done" ELSE "text_save"
    /\ UNCHANGED << args, files, dirs, urls, i, article_text, output_file, raised,
                    run, prev >>

\* The output path, and with open(output_file, "w") as f: ...  Nothing catches
\* an exception here: it leaves the function.
TextSave ==
    /\ pc = "text_save"
    /\ LET path == derive_output_file(text_file, args.output)
       IN  /\ output_file' = path
           /\ \E o \in WriteOutcomes :
                /\ files' = after_write(files, path, text_document(text_file, summary), o)
                /\ log' = Append(log, Event("write", 1, path, o))
                /\ resp' = [ resp EXCEPT !.wr[1] = o ]
                /\ raised' = (o # "ok")
    /\ pc' = "done"
    /\ UNCHANGED << args, dirs, urls, i, article_text, summary, run, prev >>

-----------------------------------------------------------------------------
(* The program is run again, with the same command line, on the file system
   the run before left *)

Rerun ==
    /\ pc = "done"
    /\ run < MaxRuns
    /\ run' = run + 1
    /\ prev' = [ log |-> log, resp |-> resp, files |-> files, dirs |-> dirs ]
    /\ pc' = StartPc
    /\ urls' = <<>>
    /\ i' = 0
    /\ article_text' = <<>>
    /\ summary' = <<>>
    /\ output_file' = NoValue
    /\ raised' = FALSE
    /\ log' = <<>>
    /\ resp' = NoResp
    /\ UNCHANGED << args, files, dirs >>

-----------------------------------------------------------------------------

Next ==
    \/ MainMissingPrompt
    \/ MainCreateSample
    \/ MainWeb
    \/ MainMissingInput
    \/ MainText
    \/ MakeOutputDir
    \/ ReadUrls
    \/ Fetch
    \/ LoopEnd
    \/ Summarize
    \/ Save
    \/ ReadText
    \/ TextSummarize
    \/ TextSave
    \/ Rerun

Spec == Init /\ [][Next]_vars

-----------------------------------------------------------------------------
(* summarize_with_prompt on its own: any template in prompt.txt (or none),
   any non-empty text *)

InitPrompt ==
    /\ args = [ entry |-> "summarize_with_prompt", mode |-> "text",
                input |-> NoValue, output |-> NoValue ]
    /\ files \in { NoFiles } \cup { PromptPath :> t : t \in Templates }
    /\ dirs = {}
    /\ run = 1
    /\ prev = [ log |-> <<>>, resp |-> NoResp, files |-> files, dirs |-> dirs ]
    /\ pc = StartPc
    /\ urls = <<>>
    /\ i = 0
    /\ article_text \in Texts
    /\ summary = <<>>
    /\ output_file = NoValue
    /\ raised = FALSE
    /\ log = <<>>
    /\ resp = NoResp

CallSummarize ==
    /\ pc = "summarize_with_prompt"
    /\ \E s \in CompletionResults :
         /\ summarize_with_prompt(article_text, 1, s)
         /\ summary' = s
    /\ pc' = "done"
    /\ UNCHANGED << args, files, dirs, urls, i, article_text, output_file, raised,
                    run, prev >>

NextPrompt == CallSummarize

SpecPrompt == InitPrompt /\ [][NextPrompt]_vars

-----------------------------------------------------------------------------
(* Vocabulary of the properties *)

LogIdx == 1..Len(log)

\* The run with log l entered function f
Called(l, f) == \E n \in 1..Len(l) : l[n].op = "call" /\ l[n].arg = << f >>

\* The places in the log of the operations op done for item k
Events(op, k) == { n \in LogIdx : log[n].op = op /\ log[n].i = k }

\* The operations op of the run, for any item
AllEvents(op) == { n \in LogIdx : log[n].op = op }

\* The batch loop of this run was entered: the list file was read
InBatchLoop == Called(log, "process_urls_from_file") /\ i >= 1

\* The summarizer returned the empty string at place n of the log
EmptySummaryAt(n) ==
    \/ log[n].op = "load_template"
    \/ log[n].op = "complete" /\ log[n].result = <<>>

\* Some stage failed for item j
StageFailed(j) ==
    \/ \E n \in Events("fetch", j) : log[n].result = <<>>
    \/ \E n \in LogIdx : log[n].i = j /\ EmptySummaryAt(n)
    \/ \E n \in Events("write", j) : log[n].result # "ok"

\* The paths at which fs and gs differ
Changed(fs, gs) ==
    { q \in DOMAIN fs \cup DOMAIN gs :
        ~(q \in DOMAIN fs /\ q \in DOMAIN gs /\ fs[q] = gs[q]) }

-----------------------------------------------------------------------------
(* C1 *)

\* C1: in batch mode a failure in any stage for one item (fetch, template
\* load, completion, writing the output file) skips only that item: when the
\* function has finished, every later item of the list has been fetched.
C1_FailureSkipsOnlyThatItem ==
    (pc = "done" /\ InBatchLoop) =>
        \A j \in 1..Len(urls) :
            StageFailed(j) => \A k \in (j + 1)..Len(urls) : Events("fetch", k) # {}

\* C1, for the stages before the write: after an empty fetch, a failed
\* template load or an empty completion for item j the loop goes on to
\* item j + 1.
C1_EarlierStagesSkipOnlyThatItem ==
    (pc = "done" /\ InBatchLoop) =>
        \A j \in 1..Len(urls) :
            (StageFailed(j) /\ Events("write", j) = {} /\ j < Len(urls))
                => Events("fetch", j + 1) # {}

-----------------------------------------------------------------------------
(* C2 *)

\* C2: in batch mode, when the summarizer returns the empty string for an
\* item, no output file is written for that item in that run, and the next
\* thing the loop does is fetch the next item (or end, after the last one).
C2_EmptySummarySkipsItem ==
    Called(log, "process_urls_from_file") =>
        \A n \in LogIdx :
            EmptySummaryAt(n) =>
                /\ Events("write", log[n].i) = {}
                /\ IF n < Len(log)
                   THEN log[n + 1].op = "fetch" /\ log[n + 1].i = log[n].i + 1
                   ELSE /\ i = log[n].i + 1
                        /\ \/ pc = "fetch"
                           \/ pc = "done" /\ log[n].i = Len(urls)

\* C2 witness: a finished batch run in which the completion for item 1 came
\* back empty and item 2 was then fetched, summarized and written.
C2_Witness ==
    /\ pc = "done"
    /\ \E n \in Events("complete", 1) : log[n].result = <<>>
    /\ \E n \in Events("write", 2) : log[n].result = "ok"

-----------------------------------------------------------------------------
(* C4 *)

\* C4: when prompt.txt is missing as main starts, the run does no work in
\* either mode: no fetch, no completion call, no list file created, no
\* directory or output file written; main only returns.
C4_MissingTemplateAborts ==
    (args.entry = "main" /\ PromptPath \notin DOMAIN prev.files) =>
        /\ log = <<>>
        /\ files = prev.files
        /\ dirs = prev.dirs
        /\ pc \in { "main", "done" }
        /\ ~raised

\* C4 witness: main has returned without prompt.txt, in web mode, although
\* a list file naming a URL was there (C4_WitnessText: in text mode, although
\* the input file was there).
C4_Witness ==
    /\ pc = "done"
    /\ args.entry = "main"
    /\ args.mode = "web"
    /\ PromptPath \notin DOMAIN prev.files
    /\ urls_file \in DOMAIN files
    /\ listed_urls(readlines(files[urls_file])) # <<>>

C4_WitnessText ==
    /\ pc = "done"
    /\ args.entry = "main"
    /\ args.mode = "text"
    /\ PromptPath \notin DOMAIN prev.files
    /\ text_file \in DOMAIN files
    /\ strip(files[text_file]) # <<>>

-----------------------------------------------------------------------------
(* C5 *)

\* C5: no exception leaves process_urls_from_file or process_text_file,
\* whatever stage fails.
C5_NoExceptionPropagates ==
    ~(raised /\ (Called(log, "process_urls_from_file") \/ Called(log, "process_text_file")))

\* C5, for the failures the two functions do absorb: an exception leaves
\* them only from os.makedirs or from writing the text-mode output file.
C5_OnlyUnguardedWritesPropagate ==
    (raised /\ (Called(log, "process_urls_from_file") \/ Called(log, "process_text_file"))) =>
        /\ log[Len(log)].op \in { "makedirs", "write" }
        /\ log[Len(log)].result # "ok"
        /\ log[Len(log)].op = "write" => Called(log, "process_text_file")

-----------------------------------------------------------------------------
(* C8 *)

\* C8: in web mode, when prompt.txt exists and the list file does not, main
\* creates the list file and returns: nothing is fetched, no completion is
\* called, no directory is made and no other file is touched; the list file
\* it has written holds comment lines only, so that a further run over it
\* finds no item.
C8_MissingListCreatesSampleAndAborts ==
    /\ ( /\ args.entry = "main"
         /\ args.mode = "web"
         /\ PromptPath \in DOMAIN prev.files
         /\ urls_file \notin DOMAIN prev.files ) =>
            /\ pc \in { "main", "done" }
            /\ dirs = prev.dirs
            /\ Changed(files, prev.files) \subseteq { urls_file }
            /\ \A n \in LogIdx : log[n].op = "create_list"
            /\ pc = "done" =>
                 /\ Len(log) = 1
                 /\ log[1].result = "ok" =>
                      /\ ~raised
                      /\ urls_file \in DOMAIN files
                      /\ readlines(files[urls_file]) # <<>>
                      /\ \A m \in 1..Len(readlines(files[urls_file])) :
                            startswith(readlines(files[urls_file])[m], << "#" >>)
    /\ ( /\ run > 1
         /\ \E n \in 1..Len(prev.log) :
               prev.log[n].op = "create_list" /\ prev.log[n].result = "ok" ) =>
            AllEvents("fetch") = {}

\* C8 witness: main has returned after creating the list file.
C8_Witness ==
    /\ pc = "done"
    /\ run = 1
    /\ urls_file \notin DOMAIN prev.files
    /\ urls_file \in DOMAIN files
    /\ AllEvents("create_list") # {}
    /\ ~raised

-----------------------------------------------------------------------------
(* C9 *)

\* sub occurs in s as a contiguous part
Contains(s, sub) ==
    \E k \in 0..(Len(s) - Len(sub)) : SubSeq(s, k + 1, k + Len(sub)) = sub

SymbolsOf(s) == { s[n] : n \in 1..Len(s) }

-----------------------------------------------------------------------------
(* C3 *)

\* A line that holds nothing but whitespace
Blank(line) == \A n \in 1..Len(line) : line[n] \in Whitespace

\* A line that starts with '#'
Comment(line) == Len(line) >= 1 /\ line[1] = "#"

\* The numbers of the lines of content c that are neither blank nor comments
Wanted(c) ==
    { n \in 1..Len(readlines(c)) : ~Blank(readlines(c)[n]) /\ ~Comment(readlines(c)[n]) }

\* The k-th smallest member of the set S of numbers
Kth(S, k) == CHOOSE n \in S : Cardinality({ m \in S : m <= n }) = k

\* The fetches of the run, in order
Fetches == SelectSeq(log, LAMBDA e : e.op = "fetch")

\* "summary_{k:03d}.md" for k below 1000
NameOf(k) ==
    << "summary_", DigitSymbol(k \div 100), DigitSymbol((k \div 10) % 10),
       DigitSymbol(k % 10), ".md" >>

\* The k-th fetch of the run is that of the k-th wanted line, stripped, under
\* sequence number k; every write of the run goes to summary_{k:03d}.md
\* under the output directory, for the sequence number k of its item
NumberedInFileOrder ==
    LET c == files[urls_file]
    IN  /\ Len(Fetches) <= Cardinality(Wanted(c))
        /\ \A k \in 1..Len(Fetches) :
              /\ Fetches[k].i = k
              /\ Fetches[k].arg = strip(readlines(c)[Kth(Wanted(c), k)])
        /\ \A n \in AllEvents("write") :
              log[n].arg = output_dir \o << "/" >> \o NameOf(log[n].i)

\* C3: the batch loop processes exactly the lines of the list file that are
\* not blank and do not start with '#', in file order, the k-th of them under
\* sequence number k and, if written, into summary_{k:03d}.md: when the
\* function has finished, the fetches are those of all these lines.
C3_ProcessesExactlyListedLines ==
    (pc = "done" /\ InBatchLoop) =>
        /\ NumberedInFileOrder
        /\ Len(Fetches) = Cardinality(Wanted(files[urls_file]))

\* C3, for what the loop does reach: no blank line and no line starting with
\* '#' is ever fetched, the numbering and the file names are as stated, and
\* a loop that no failed write has ended fetches every wanted line.
C3_SelectionAndNumbering ==
    InBatchLoop =>
        /\ NumberedInFileOrder
        /\ (pc = "done" /\ \A n \in AllEvents("write") : log[n].result = "ok")
              => Len(Fetches) = Cardinality(Wanted(files[urls_file]))

-----------------------------------------------------------------------------
(* C10 *)

\* Every operation for an item of lower number stands before every
\* operation for an item of higher number
ItemsInTurn ==
    \A m, n \in LogIdx :
        (m < n /\ log[m].i >= 1 /\ log[n].i >= 1) => log[m].i <= log[n].i

\* The stages of item k are in line: the completion call, if any, follows a
\* fetch that returned text; the write, if any, follows a completion that
\* returned a summary; none is done twice
StagesInLine(k) ==
    /\ Cardinality(Events("fetch", k)) <= 1
    /\ Cardinality(Events("complete", k) \cup Events("load_template", k)) <= 1
    /\ Cardinality(Events("write", k)) <= 1
    /\ \A n \in Events("complete", k) \cup Events("load_template", k) :
          \E m \in Events("fetch", k) : m < n /\ log[m].result # <<>>
    /\ \A n \in Events("write", k) :
          \E m \in Events("complete", k) : m < n /\ log[m].result # <<>>

\* C10: each batch item goes through the stages in line and without retry:
\* it is fetched exactly once, summarized at most once and only after a
\* non-empty fetch, written at most once and only after a non-empty summary,
\* and item k is finished before item k + 1 is fetched.
C10_EachItemOncePerStage ==
    (pc = "done" /\ InBatchLoop) =>
        /\ ItemsInTurn
        /\ \A k \in 1..Len(urls) :
              StagesInLine(k) /\ Cardinality(Events("fetch", k)) = 1

\* C10, for the items the loop does reach: the stages are in line and
\* without retry, the items in turn, and every item below the current index
\* has been fetched exactly once.
C10_ReachedItemsOncePerStage ==
    InBatchLoop =>
        /\ ItemsInTurn
        /\ \A k \in 1..Len(urls) : StagesInLine(k)
        /\ \A k \in 1..Len(urls) : k < i => Cardinality(Events("fetch", k)) = 1
        /\ \A k \in 1..Len(urls) : k > i => Events("fetch", k) = {}

-----------------------------------------------------------------------------
(* C6 *)

\* The files under the output directory
OutputFiles(fs) ==
    [ q \in { r \in DOMAIN fs : startswith(r, output_dir \o << "/" >>) } |-> fs[q] ]

\* C6 as stated: when process_urls_from_file has run in two consecutive runs
\* over the same list file and output directory and every item got the same
\* fetch result and the same completion result in both, the second run
\* leaves under the output directory the files the first run left, with the
\* same contents.
C6_BatchIdempotent ==
    ( /\ pc = "done"
      /\ run > 1
      /\ Called(log, "process_urls_from_file")
      /\ Called(prev.log, "process_urls_from_file")
      /\ resp.fetch = prev.resp.fetch
      /\ resp.compl = prev.resp.compl ) =>
          OutputFiles(files) = OutputFiles(prev.files)

\* C6 as amended: the same, when every item also got the same outcome of
\* writing its output file in both runs.
C6_BatchIdempotentSameWrites ==
    ( /\ pc = "done"
      /\ run > 1
      /\ Called(log, "process_urls_from_file")
      /\ Called(prev.log, "process_urls_from_file")
      /\ resp = prev.resp ) =>
          OutputFiles(files) = OutputFiles(prev.files)

\* C6 witness: the second of two batch runs with the same responses has
\* finished, having rewritten a summary.
C6_Witness ==
    /\ pc = "done"
    /\ run > 1
    /\ Called(log, "process_urls_from_file")
    /\ Called(prev.log, "process_urls_from_file")
    /\ resp = prev.resp
    /\ \E n \in AllEvents("write") :
          log[n].result = "ok" /\ log[n].arg \in DOMAIN prev.files

-----------------------------------------------------------------------------
(* C7 *)

Positions(s, c) == { n \in 1..Len(s) : s[n] = c }

Max0(S) == IF S = {} THEN 0 ELSE CHOOSE n \in S : \A m \in S : m <= n

\* Where the last component of a path starts
BaseStart(name) == Max0(Positions(name, "/")) + 1

\* The place of the dot that starts the extension of a path: the last dot of
\* the last component that has a symbol other than a dot before it there;
\* 0 if the path has no extension
ExtensionDot(name) ==
    Max0({ d \in Positions(name, ".") :
             d >= BaseStart(name) /\ \E e \in BaseStart(name)..(d - 1) : name[e] # "." })

\* The input path with its extension replaced by "_summary.md"
SummaryPathFor(name) ==
    (IF ExtensionDot(name) = 0 THEN name ELSE SubSeq(name, 1, ExtensionDot(name) - 1))
        \o << "_summary.md" >>

\* C7: process_text_file processes exactly one item.  When the text read and
\* the summary are both non-empty it writes exactly one file, at the output
\* path given or else at the input path with its extension replaced by
\* "_summary.md"; when either is empty it writes no file.
C7_TextModeWritesOneFile ==
    Called(log, "process_text_file") =>
        /\ Cardinality(AllEvents("read")) = 1
        /\ AllEvents("fetch") = {}
        /\ Cardinality(AllEvents("write")) <= 1
        /\ pc = "done" =>
             LET target == IF args.output # NoValue THEN args.output
                           ELSE SummaryPathFor(text_file)
             IN  IF article_text # <<>> /\ summary # <<>>
                 THEN /\ Cardinality(AllEvents("write")) = 1
                      /\ \A n \in AllEvents("write") : log[n].arg = target
                      /\ Changed(files, prev.files) \subseteq { target }
                      /\ (\E n \in AllEvents("write") : log[n].result = "ok")
                            => /\ target \in DOMAIN files
                               /\ Contains(files[target], summary)
                 ELSE /\ AllEvents("write") = {}
                      /\ files = prev.files

\* C7 witness: process_text_file has written the summary of input "a.a"
\* (a name with an extension, as article.txt) to "a_summary.md", no output
\* path being given.
C7_Witness ==
    /\ pc = "done"
    /\ Called(log, "process_text_file")
    /\ args.input = << "a", ".", "a" >>
    /\ args.output = NoValue
    /\ output_file = << "a", "_summary.md" >>
    /\ output_file \in DOMAIN files
    /\ \E n \in AllEvents("write") : log[n].result = "ok"

\* C7 witness of the other case: an output path was given and used.
C7_WitnessGiven ==
    /\ pc = "done"
    /\ Called(log, "process_text_file")
    /\ args.output # NoValue
    /\ args.output \in DOMAIN files
    /\ \E n \in AllEvents("write") : log[n].result = "ok"

====
